---- MODULE Spec2Model ----
(***************************************************************************)
(* A model of src/parse_fa.py: the FASTA parser (parse_fasta_file), the    *)
(* slicer (slice_sequence), the writers (save_sequences_to_file and        *)
(* save_ids_to_file) and the orchestrator (get_sequence_by_id).            *)
(*                                                                         *)
(* Text is a sequence of one-character strings.  A file is its text; the   *)
(* parser sees lines only through SplitLines, as Python's file iteration   *)
(* does.  Python's None is the record None, a present value v is Some(v).  *)
(***************************************************************************)
EXTENDS Integers, Sequences, FiniteSets, TLC

VARIABLES
    fasta,    \* the input file: [kind: "file" | "missing" | "undecodable", text]
    dest,     \* the destination file: [exists, text]
    args,     \* the arguments of the call being modelled
    pc,       \* "start" before the call, then the name of the last completed step
    ret,      \* the outcome of the call: [status: "ok" | "raised", exc, value]
    old,      \* the destination file as it was before the call
    io,       \* the fault of the file system: NoFault, OpenFault or Full(k)
    notices   \* what the call printed, in order

vars == <<fasta, dest, old, io, args, pc, ret, notices>>

None == [some |-> FALSE, val |-> <<>>]
Some(v) == [some |-> TRUE, val |-> v]

NL == "\n"
TAB == "\t"
GT == ">"
SP == " "
CR == "\r"
\* The em space, U+2003.
EmSpace == "U+2003"
\* The vertical tab, U+000B.
VT == ""

\* The characters str.strip() and str.split() treat as whitespace, the 29
\* for which str.isspace() holds: tab to carriage return, U+001C to U+001F,
\* the space, U+0085, U+00A0, U+1680, U+2000 to U+200A, U+2028, U+2029,
\* U+202F, U+205F and U+3000.  A character outside ASCII is written as the
\* name of its code point, and a text holds that name as one character: the
\* module stays ASCII and reads the same under every locale.
Whitespace ==
    {TAB, NL, VT, "\f", CR, "", "", "", "", SP,
     "U+0085", "U+00A0", "U+1680",
     "U+2000", "U+2001", "U+2002", EmSpace, "U+2004", "U+2005",
     "U+2006", "U+2007", "U+2008", "U+2009", "U+200A",
     "U+2028", "U+2029", "U+202F", "U+205F", "U+3000"}

Min(a, b) == IF a <= b THEN a ELSE b
Max(a, b) == IF a >= b THEN a ELSE b

\* All texts over the alphabet cs of length at most n.
Strings(cs, n) == UNION {[1..k -> cs] : k \in 0..n}

\* All lists over S of length at most n.
Lists(S, n) == UNION {[1..k -> S] : k \in 0..n}

(***************************************************************************)
(* Python string primitives.                                               *)
(***************************************************************************)
RECURSIVE lstrip(_)
lstrip(s) ==
    IF s # <<>> /\ Head(s) \in Whitespace THEN lstrip(Tail(s)) ELSE s

RECURSIVE rstrip(_)
rstrip(s) ==
    IF s # <<>> /\ s[Len(s)] \in Whitespace
    THEN rstrip(SubSeq(s, 1, Len(s) - 1))
    ELSE s

\* str.strip()
strip(s) == rstrip(lstrip(s))

\* str.startswith(c) for a one-character prefix
startswith(s, c) == s # <<>> /\ Head(s) = c

\* str.split(): the maximal runs of non-whitespace, in order.
\* cur is the field being read, fields those already complete.
RECURSIVE SplitFrom(_, _, _)
SplitFrom(s, cur, fields) ==
    IF s = <<>>
    THEN IF cur = <<>> THEN fields ELSE Append(fields, cur)
    ELSE IF Head(s) \in Whitespace
         THEN SplitFrom(Tail(s), <<>>,
                        IF cur = <<>> THEN fields ELSE Append(fields, cur))
         ELSE SplitFrom(Tail(s), Append(cur, Head(s)), fields)

split(s) == SplitFrom(s, <<>>, <<>>)

\* delimiter.join(fields)
RECURSIVE join(_, _)
join(delimiter, fields) ==
    IF fields = <<>> THEN <<>>
    ELSE IF Len(fields) = 1 THEN fields[1]
    ELSE fields[1] \o delimiter \o join(delimiter, Tail(fields))

\* Iterating a file opened with open(..., 'r'): each line runs up to and
\* including its newline; a last line without a newline is a line too.  The
\* file is read with universal newlines: "\r\n" and a lone "\r" end a line
\* as well and reach the loop as "\n".
RECURSIVE LinesFrom(_, _, _)
LinesFrom(text, cur, lines) ==
    IF text = <<>>
    THEN IF cur = <<>> THEN lines ELSE Append(lines, cur)
    ELSE IF Head(text) = NL
         THEN LinesFrom(Tail(text), <<>>, Append(lines, Append(cur, NL)))
    ELSE IF Head(text) = CR
         THEN LinesFrom(IF Len(text) > 1 /\ text[2] = NL THEN Tail(Tail(text))
                        ELSE Tail(text),
                        <<>>, Append(lines, Append(cur, NL)))
         ELSE LinesFrom(Tail(text), Append(cur, Head(text)), lines)

SplitLines(text) == LinesFrom(text, <<>>, <<>>)

\* Truth value of an Optional[str]: None and '' are false.
Truthy(x) == x.some /\ x.val # <<>>

(***************************************************************************)
(* parse_fasta_file: the loop over the lines, then the flush at the end.   *)
(* st is [ids, sequences, current_id, current_sequence].                   *)
(***************************************************************************)
ParseLine(st, rawline) ==
    LET line == strip(rawline) IN
    IF startswith(line, GT)
    THEN LET keep == Truthy(st.current_id) /\ st.current_sequence # <<>> IN
         [ids |-> IF keep THEN Append(st.ids, st.current_id.val) ELSE st.ids,
          sequences |-> IF keep THEN Append(st.sequences, st.current_sequence)
                        ELSE st.sequences,
          current_id |-> Some(Tail(line)),
          current_sequence |-> <<>>]
    ELSE [st EXCEPT !.current_sequence = st.current_sequence \o line]

RECURSIVE ParseLoop(_, _)
ParseLoop(st, lines) ==
    IF lines = <<>> THEN st
    ELSE ParseLoop(ParseLine(st, Head(lines)), Tail(lines))

ParseFlush(st) ==
    IF Truthy(st.current_id) /\ st.current_sequence # <<>>
    THEN [ids |-> Append(st.ids, st.current_id.val),
          sequences |-> Append(st.sequences, st.current_sequence)]
    ELSE [ids |-> st.ids, sequences |-> st.sequences]

ParseStart ==
    [ids |-> <<>>, sequences |-> <<>>, current_id |-> None,
     current_sequence |-> <<>>]

\* A parser that forgets the flush after the loop.
parse_fasta_file_noflush(text) ==
    LET st == ParseLoop(ParseStart, SplitLines(text)) IN
    [ids |-> st.ids, sequences |-> st.sequences]

parse_fasta_file(text) ==
    ParseFlush(ParseLoop(ParseStart, SplitLines(text)))

(***************************************************************************)
(* slice_sequence.  PySlice is Python's sequence[start:end] for integer    *)
(* bounds: a negative bound counts from the end, and every bound is then   *)
(* cut to 0..len.                                                          *)
(***************************************************************************)
SliceBound(b, n) == IF b < 0 THEN Max(b + n, 0) ELSE Min(b, n)

PySlice(sequence, start, end) ==
    LET lo == SliceBound(start, Len(sequence))
        hi == SliceBound(end, Len(sequence))
    IN IF lo < hi THEN SubSeq(sequence, lo + 1, hi) ELSE <<>>

\* A slicer that cuts a negative bound to 0 instead of counting from the end.
slice_sequence_clamped(sequence, start, end) ==
    IF start.some /\ end.some
    THEN IF start.val > end.val
         THEN [status |-> "raised", exc |-> "ValueError", value |-> <<>>]
         ELSE [status |-> "ok", exc |-> "",
               value |-> SubSeq(sequence,
                                Max(0, Min(start.val, Len(sequence))) + 1,
                                Max(0, Min(end.val, Len(sequence))))]
    ELSE [status |-> "ok", exc |-> "", value |-> sequence]

slice_sequence(sequence, start, end) ==
    IF start.some /\ end.some
    THEN IF start.val > end.val
         THEN [status |-> "raised", exc |-> "ValueError", value |-> <<>>]
         ELSE [status |-> "ok", exc |-> "",
               value |-> PySlice(sequence, start.val, end.val)]
    ELSE [status |-> "ok", exc |-> "", value |-> sequence]

(***************************************************************************)
(* The destination file and the faults of the file system.                 *)
(* OpenFault makes open() raise OSError.  Full(k) lets the file grow to k  *)
(* characters and no further: file.write() only fills the buffer, the      *)
(* OSError comes when the file is closed at the end of the with block, and *)
(* the file keeps the first k characters of what was written.              *)
(***************************************************************************)
NoDest == [exists |-> FALSE, text |-> <<>>]

FileOf(text) == [exists |-> TRUE, text |-> text]

NoFault == [kind |-> "none", room |-> 0]
OpenFault == [kind |-> "open", room |-> 0]
Full(k) == [kind |-> "full", room |-> k]

\* Leaving the with block: the buffered text goes to the file.
CloseFile(text, fault) ==
    IF fault.kind = "full" /\ Len(text) > fault.room
    THEN [failed |-> TRUE, text |-> SubSeq(text, 1, fault.room)]
    ELSE [failed |-> FALSE, text |-> text]

\* The text of the file.write() calls of one turn of a loop.
RECURSIVE WriteChunks(_, _)
WriteChunks(chunks, text) ==
    IF chunks = <<>> THEN text ELSE WriteChunks(Tail(chunks), text \o Head(chunks))

(***************************************************************************)
(* save_sequences_to_file.                                                 *)
(***************************************************************************)
\* `if columns:` is false for None and for the empty list.
ColumnsGiven(columns) == columns.some /\ columns.val # <<>>

\* fields[i] raises IndexError unless -len <= i < len.
IndexRaises(fields, i) == i >= Len(fields) \/ i < -Len(fields)

\* fields[i]: a negative index counts from the end.
Index(fields, i) == IF i < 0 THEN fields[Len(fields) + i + 1] ELSE fields[i + 1]

\* [id.split()[i] for i in columns]
ProjectionRaises(id, columns) ==
    \E k \in 1..Len(columns) : IndexRaises(split(id), columns[k])

Projection(id, columns) ==
    [k \in 1..Len(columns) |-> Index(split(id), columns[k])]

\* A loop body that writes the sequence line whatever write_sequence says.
RecordWrites_always_sequence(id, sequence, delimiter, columns, write_sequence) ==
    [raises |-> FALSE, chunks |-> << id \o <<NL>> \o sequence \o <<NL>> >>]

\* A loop body that does not end the sequence line.
RecordWrites_open_line(id, sequence, delimiter, columns, write_sequence) ==
    [raises |-> FALSE, chunks |-> << id \o <<NL>> \o sequence >>]

\* What one turn of the loop does: raise, or the file.write() calls it makes.
\* With write_sequence false only the verbatim id is written: columns is not read.
RecordWrites(id, sequence, delimiter, columns, write_sequence) ==
    IF write_sequence
    THEN IF ColumnsGiven(columns)
         THEN IF ProjectionRaises(id, columns.val)
              THEN [raises |-> TRUE, chunks |-> <<>>]
              ELSE [raises |-> FALSE,
                    chunks |-> <<join(delimiter, Projection(id, columns.val)) \o <<NL>>,
                                 sequence \o <<NL>> >>]
         ELSE [raises |-> FALSE, chunks |-> << id \o <<NL>> \o sequence \o <<NL>> >>]
    ELSE [raises |-> FALSE, chunks |-> << id \o <<NL>> >>]

\* The loop over zip(ids, sequences) from record i on; text is what the
\* earlier turns wrote.
RECURSIVE WriterLoop(_, _, _, _, _, _, _)
WriterLoop(i, ids, sequences, delimiter, columns, write_sequence, text) ==
    IF i > Min(Len(ids), Len(sequences))
    THEN [status |-> "ok", exc |-> "", text |-> text]
    ELSE LET rw == RecordWrites(ids[i], sequences[i], delimiter, columns, write_sequence)
         IN IF rw.raises
            THEN [status |-> "raised", exc |-> "IndexError", text |-> text]
            ELSE WriterLoop(i + 1, ids, sequences, delimiter, columns,
                            write_sequence, WriteChunks(rw.chunks, text))

\* The outcome and the destination file afterwards.  No handler removes the
\* file: it is closed with what was written, whatever ended the loop, and an
\* OSError of the close replaces the exception that ended the loop.
save_sequences_to_file(before, ids, sequences, id_output_file, delimiter, columns, write_sequence, fault) ==
    IF ~id_output_file.some
    THEN [status |-> "ok", exc |-> "", dest |-> before]
    ELSE IF fault.kind = "open"
    THEN [status |-> "raised", exc |-> "OSError", dest |-> before]
    ELSE LET r == WriterLoop(1, ids, sequences, delimiter, columns,
                             write_sequence, <<>>)
             c == CloseFile(r.text, fault)
         IN IF c.failed
            THEN [status |-> "raised", exc |-> "OSError", dest |-> FileOf(c.text)]
            ELSE [status |-> r.status, exc |-> r.exc, dest |-> FileOf(r.text)]

(***************************************************************************)
(* save_ids_to_file.                                                       *)
(***************************************************************************)
DeletedNotice(filename) == [kind |-> "deleted", text |-> filename, n |-> 0]
WriteErrorNotice(filename) == [kind |-> "write error", text |-> filename, n |-> 0]

\* columns_to_write[i] if i < len(columns_to_write) else ""
\* (the indices are not negative: validation has rejected those)
ProjectionOrEmpty(id, columns) ==
    [k \in 1..Len(columns) |->
        IF columns[k] < Len(split(id)) THEN split(id)[columns[k] + 1] ELSE <<>>]

\* One turn of the loop: the id line is written, then sequences[index] is
\* read when sequences is a non-empty list, which raises IndexError when the
\* list is shorter than ids.
IdsRecordWrites(id, delimiter, columns, sequences, index) ==
    LET fields == IF columns.some THEN ProjectionOrEmpty(id, columns.val)
                  ELSE split(id)
        line == join(delimiter, fields) \o <<NL>>
    IN IF sequences.some /\ sequences.val # <<>>
       THEN IF index > Len(sequences.val)
            THEN [raises |-> TRUE, chunks |-> <<line>>]
            ELSE IF sequences.val[index] # <<>>
            THEN [raises |-> FALSE, chunks |-> <<line, sequences.val[index] \o <<NL>> >>]
            ELSE [raises |-> FALSE, chunks |-> <<line>>]
       ELSE [raises |-> FALSE, chunks |-> <<line>>]

RECURSIVE IdsLoop(_, _, _, _, _, _)
IdsLoop(i, ids, delimiter, columns, sequences, text) ==
    IF i > Len(ids) THEN [status |-> "ok", exc |-> "", text |-> text]
    ELSE LET rw == IdsRecordWrites(ids[i], delimiter, columns, sequences, i)
         IN IF rw.raises
            THEN [status |-> "raised", exc |-> "IndexError",
                  text |-> WriteChunks(rw.chunks, text)]
            ELSE IdsLoop(i + 1, ids, delimiter, columns, sequences,
                         WriteChunks(rw.chunks, text))

\* Validation, then delete-and-rewrite.  An OSError is reported and the file
\* removed; when open() itself failed there is no file, and os.remove raises.
\* An IndexError of the loop is not handled: it leaves the call and the file
\* keeps what was written, unless the close fails too.
save_ids_to_file(before, ids, filename, delimiter, columns, sequences, fault) ==
    LET deleted == IF before.exists THEN <<DeletedNotice(filename)>> ELSE <<>> IN
    IF ids = <<>> \/ filename = <<>>
    THEN [status |-> "raised", exc |-> "ValueError", dest |-> before, notices |-> <<>>]
    ELSE IF columns.some /\ \E k \in 1..Len(columns.val) : columns.val[k] < 0
    THEN [status |-> "raised", exc |-> "ValueError", dest |-> before, notices |-> <<>>]
    ELSE IF fault.kind = "open"
    THEN [status |-> "raised", exc |-> "FileNotFoundError", dest |-> NoDest,
          notices |-> Append(deleted, WriteErrorNotice(filename))]
    ELSE LET r == IdsLoop(1, ids, delimiter, columns, sequences, <<>>)
             c == CloseFile(r.text, fault)
         IN IF c.failed
            THEN [status |-> "ok", exc |-> "", dest |-> NoDest,
                  notices |-> Append(deleted, WriteErrorNotice(filename))]
            ELSE [status |-> r.status, exc |-> r.exc, dest |-> FileOf(r.text),
                  notices |-> deleted]

(***************************************************************************)
(* get_sequence_by_id.                                                     *)
(***************************************************************************)
Notice(kind, text, n) == [kind |-> kind, text |-> text, n |-> n]

NotFoundNotice(sequence_id) == Notice("not found", sequence_id, 0)
IdNotice(sequence_id) == Notice("id", sequence_id, 0)
LengthNotice(n) == Notice("length", <<>>, n)
ErrorNotice(exc) == Notice("error", <<exc>>, 0)

\* The index of the first record whose id equals sequence_id, 0 when none does.
RECURSIVE FirstMatchFrom(_, _, _)
FirstMatchFrom(i, all_ids, sequence_id) ==
    IF i > Len(all_ids) THEN 0
    ELSE IF all_ids[i] = sequence_id THEN i
    ELSE FirstMatchFrom(i + 1, all_ids, sequence_id)

FirstMatch(all_ids, sequence_id) == FirstMatchFrom(1, all_ids, sequence_id)

\* `if columns is not None and len(columns) == 0: columns = None`
NormalizeColumns(columns) ==
    IF columns.some /\ columns.val = <<>> THEN None ELSE columns

\* The else branch of `if target_sequence:`.
NotFoundOutcome(before, a) ==
    [status |-> "ok", exc |-> "", dest |-> before,
     notices |-> <<NotFoundNotice(a.sequence_id.val)>>]

\* The writer called inside the try block: an exception becomes a notice.
GuardedWrite(before, ids, sequences, a, columns, fault, said) ==
    LET w == save_sequences_to_file(before, ids, sequences, a.id_output_file,
                                    a.delimiter, columns, a.write_sequence, fault)
    IN [status |-> "ok", exc |-> "", dest |-> w.dest,
        notices |-> IF w.status = "raised"
                    THEN Append(said, ErrorNotice(w.exc)) ELSE said]

\* The single-identifier branch.  target_sequence stays '' when no id matches,
\* and is '' as well when the slice of the match is empty.
SingleIdPath(parsed, before, a, columns, fault) ==
    LET m == FirstMatch(parsed.ids, a.sequence_id.val)
        sl == IF m = 0 THEN [status |-> "ok", exc |-> "", value |-> <<>>]
              ELSE slice_sequence(parsed.sequences[m], a.start, a.end)
    IN IF sl.status = "raised"
       THEN [status |-> "ok", exc |-> "", dest |-> before,
             notices |-> <<ErrorNotice(sl.exc)>>]
       ELSE IF sl.value # <<>>
       THEN GuardedWrite(before, <<a.sequence_id.val>>, <<sl.value>>, a, columns, fault,
                         <<IdNotice(a.sequence_id.val)>> \o
                         (IF a.write_sequence THEN <<LengthNotice(Len(sl.value))>>
                          ELSE <<>>))
       ELSE NotFoundOutcome(before, a)

\* validate_input and parse_fasta_file run before the try block: what they
\* raise leaves the call.  A missing file fails validation; a file that is
\* not UTF-8 passes it and makes the parser raise.
get_sequence_by_id(fa, before, a, fault) ==
    IF fa.kind = "missing"
    THEN [status |-> "raised", exc |-> "FileNotFoundError", dest |-> before,
          notices |-> <<>>]
    ELSE IF fa.kind = "undecodable"
    THEN [status |-> "raised", exc |-> "UnicodeDecodeError", dest |-> before,
          notices |-> <<>>]
    ELSE LET columns == NormalizeColumns(a.columns)
             parsed == parse_fasta_file(fa.text)
         IN IF Truthy(a.sequence_id)
            THEN SingleIdPath(parsed, before, a, columns, fault)
            ELSE GuardedWrite(before, parsed.ids, parsed.sequences, a, columns,
                              fault, <<>>)

(***************************************************************************)
(* The calls, as actions.  Each reads its arguments from args and the      *)
(* files it touches, and records its outcome.                              *)
(***************************************************************************)
OutPath == <<"o", "u", "t">>

CallParse ==
    /\ pc = "start"
    /\ args.op = "parse_fasta_file"
    /\ fasta.kind = "file"
    /\ ret' = [status |-> "ok", exc |-> "", value |-> parse_fasta_file(fasta.text)]
    /\ pc' = "parse_fasta_file"
    /\ UNCHANGED <<fasta, dest, old, io, args, notices>>

CallSlice ==
    /\ pc = "start"
    /\ args.op = "slice_sequence"
    /\ ret' = slice_sequence(args.sequence, args.start, args.end)
    /\ pc' = "slice_sequence"
    /\ UNCHANGED <<fasta, dest, old, io, args, notices>>

CallWriter ==
    /\ pc = "start"
    /\ args.op = "save"
    /\ \E r \in {save_sequences_to_file(dest, args.ids, args.sequences,
                                       args.id_output_file, args.delimiter,
                                       args.columns, args.write_sequence, io)} :
          /\ ret' = [status |-> r.status, exc |-> r.exc, value |-> <<>>]
          /\ dest' = r.dest
    /\ pc' = "save_sequences_to_file"
    /\ UNCHANGED <<fasta, old, io, args, notices>>

CallSaveIds ==
    /\ pc = "start"
    /\ args.op = "save"
    /\ args.id_output_file.some
    /\ \E r \in {save_ids_to_file(dest, args.ids, args.id_output_file.val,
                                 args.delimiter, args.columns,
                                 IF args.write_sequence THEN Some(args.sequences)
                                 ELSE None, io)} :
          /\ ret' = [status |-> r.status, exc |-> r.exc, value |-> <<>>]
          /\ dest' = r.dest
          /\ notices' = r.notices
    /\ pc' = "save_ids_to_file"
    /\ UNCHANGED <<fasta, old, io, args>>

\* Reading back the file the writer has just written.
ParseWritten ==
    /\ pc = "save_sequences_to_file"
    /\ ret.status = "ok"
    /\ dest.exists
    /\ ret' = [status |-> "ok", exc |-> "", value |-> parse_fasta_file(dest.text)]
    /\ pc' = "parse_written"
    /\ UNCHANGED <<fasta, dest, old, io, args, notices>>

CallGetSequenceById ==
    /\ pc = "start"
    /\ args.op = "get_sequence_by_id"
    /\ \E r \in {get_sequence_by_id(fasta, dest, args, io)} :
          /\ ret' = [status |-> r.status, exc |-> r.exc, value |-> <<>>]
          /\ dest' = r.dest
          /\ notices' = r.notices
    /\ pc' = "get_sequence_by_id"
    /\ UNCHANGED <<fasta, old, io, args>>

OptionalOf(S) == {None} \cup {Some(v) : v \in S}

(***************************************************************************)
(* Specification SpecParse: the parser on every short input file.          *)
(***************************************************************************)
MaxFileLen == 7
MaxLines == 4

FileChars == {GT, SP, "A", NL, CR}

\* Lines for the longer files: headers with one and two fields, a header
\* with no identifier, a header ended by a vertical tab, sequence lines with
\* and without whitespace (a space, an em space), a blank line.
SampleLines ==
    { <<GT, "A">>, <<GT, "C">>, <<GT, "A", SP, "C">>, <<GT>>, <<GT, "A", VT>>,
      <<"A">>, <<"C", "G">>, <<SP, "G", SP>>, <<"G", EmSpace>>, <<>> }

\* The text of a file with the given lines, each ended by a newline.
RECURSIVE JoinLines(_)
JoinLines(lines) ==
    IF lines = <<>> THEN <<>> ELSE Head(lines) \o <<NL>> \o JoinLines(Tail(lines))

\* Every text of at most MaxFileLen characters, and every file of at most
\* MaxLines of the sample lines.
InitParse ==
    /\ \/ \E k \in 0..MaxFileLen : \E t \in [1..k -> FileChars] :
             fasta = [kind |-> "file", text |-> t]
       \/ \E k \in 0..MaxLines : \E ls \in [1..k -> SampleLines] :
             fasta = [kind |-> "file", text |-> JoinLines(ls)]
    /\ dest = NoDest
    /\ old = NoDest
    /\ io = NoFault
    /\ args = [op |-> "parse_fasta_file"]
    /\ pc = "start"
    /\ ret = None
    /\ notices = <<>>

NextParse == CallParse

SpecParse == InitParse /\ [][NextParse]_vars

(***************************************************************************)
(* Specification SpecSlice: the slicer on every short sequence and every   *)
(* pair of bounds, absent, negative, inside and past the end.              *)
(***************************************************************************)
MaxSeqLen == 3
MaxIndex == 4

Bases == {"A", "C", "G", "T"}

InitSlice ==
    /\ fasta = [kind |-> "missing", text |-> <<>>]
    /\ dest = NoDest
    /\ old = NoDest
    /\ io = NoFault
    /\ args \in [op : {"slice_sequence"},
                 sequence : Strings(Bases, MaxSeqLen),
                 start : OptionalOf(-MaxIndex..MaxIndex),
                 end : OptionalOf(-MaxIndex..MaxIndex)]
    /\ pc = "start"
    /\ ret = None
    /\ notices = <<>>

NextSlice == CallSlice

SpecSlice == InitSlice /\ [][NextSlice]_vars

(***************************************************************************)
(* Specification SpecWriter: save_sequences_to_file on lists of records,   *)
(* with every choice of columns and write_sequence, and no I/O fault.      *)
(***************************************************************************)
MaxRecords == 2
MaxCol == 1
MaxCols == 2

\* Identifiers: empty, one field, two and three fields, leading whitespace.
WriterIds ==
    { <<>>, <<"A">>, <<"A", SP, "C">>, <<"A", SP, "C", SP, "G">>, <<SP, "A">> }

WriterSeqs == { <<>>, <<"A", "C">> }

Delimiters == { <<TAB>>, <<",">> }

\* No columns, or column indices counted from the start and from the end.
ColumnChoices == OptionalOf(Lists(-1..MaxCol, MaxCols))

OldText == <<"o", "l", "d", NL>>

\* The ids and the sequences of a list of [id, sequence] records.
IdsOf(records) == [i \in 1..Len(records) |-> records[i].id]
SequencesOf(records) == [i \in 1..Len(records) |-> records[i].sequence]

SaveArgs(records, out, delimiter, columns, write_sequence) ==
    [op |-> "save", ids |-> IdsOf(records), sequences |-> SequencesOf(records),
     id_output_file |-> out, delimiter |-> delimiter, columns |-> columns,
     write_sequence |-> write_sequence]

InitWriter ==
    /\ fasta = [kind |-> "missing", text |-> <<>>]
    /\ dest \in {NoDest, FileOf(OldText)}
    /\ old = dest
    /\ io = NoFault
    /\ \E records \in Lists([id : WriterIds, sequence : WriterSeqs], MaxRecords),
          out \in OptionalOf({OutPath}), delimiter \in Delimiters,
          columns \in ColumnChoices, write_sequence \in BOOLEAN :
          args = SaveArgs(records, out, delimiter, columns, write_sequence)
    /\ pc = "start"
    /\ ret = None
    /\ notices = <<>>

NextWriter == CallWriter

SpecWriter == InitWriter /\ [][NextWriter]_vars

(***************************************************************************)
(* Specification SpecWriterIO: both writers when the file system fails at  *)
(* the open or has no room for the whole output, on lists of ids and lists *)
(* of sequences that may be shorter.                                       *)
(***************************************************************************)
MaxRoom == 4
MaxIoRecords == 2

Faults == {NoFault, OpenFault} \cup {Full(k) : k \in 0..MaxRoom}

IoIds == { <<"A">>, <<"A", SP, "C">> }
IoSeqs == { <<"G">> }

InitWriterIO ==
    /\ fasta = [kind |-> "missing", text |-> <<>>]
    /\ dest \in {NoDest, FileOf(OldText)}
    /\ old = dest
    /\ io \in Faults
    /\ \E records \in Lists([id : IoIds, sequence : IoSeqs], MaxIoRecords),
          columns \in {None, Some(<<0>>), Some(<<1>>)},
          write_sequence \in BOOLEAN :
          \E n \in 0..Len(records) :
             args = [SaveArgs(records, Some(OutPath), <<TAB>>, columns, write_sequence)
                     EXCEPT !.sequences = SubSeq(SequencesOf(records), 1, n)]
    /\ pc = "start"
    /\ ret = None
    /\ notices = <<>>

NextWriterIO == CallWriter \/ CallSaveIds

SpecWriterIO == InitWriterIO /\ [][NextWriterIO]_vars

(***************************************************************************)
(* Specification SpecRoundTrip: the writer with columns=None and           *)
(* write_sequence=True, then the parser on the file it wrote.              *)
(***************************************************************************)
MaxRtRecords == 2

\* Identifiers with and without the '>' marker, with whitespace around them.
RtIds ==
    { <<>>, <<"A">>, <<GT>>, <<GT, "A">>, <<GT, "C">>, <<GT, "A", SP, "C">>,
      <<GT, "A", SP>>, <<SP, GT, "A">>, <<"A", SP, "C">> }

RtSeqs == { <<>>, <<"A", "C">>, <<"G">>, <<SP, "G">>, <<GT, "G">> }

InitRoundTrip ==
    /\ fasta = [kind |-> "missing", text |-> <<>>]
    /\ dest = NoDest
    /\ old = dest
    /\ io = NoFault
    /\ \E records \in Lists([id : RtIds, sequence : RtSeqs], MaxRtRecords) :
          args = SaveArgs(records, Some(OutPath), <<TAB>>, None, TRUE)
    /\ pc = "start"
    /\ ret = None
    /\ notices = <<>>

NextRoundTrip == CallWriter \/ ParseWritten

SpecRoundTrip == InitRoundTrip /\ [][NextRoundTrip]_vars

(***************************************************************************)
(* Specification SpecRun: get_sequence_by_id on FASTA files, on a file     *)
(* that cannot be decoded and on a missing file.                           *)
(***************************************************************************)
MaxRunRecords == 2
MaxRunIndex == 2

RunIds == { <<"A">>, <<"A", SP, "C">> }
RunSeqs == { <<"A", "C">>, <<"G">> }

\* The identifiers asked for: absent, empty, in the files, and in none.
RunTargets == OptionalOf({ <<>>, <<"A">>, <<"A", SP, "C">>, <<"C">> })

\* A FASTA file holding the records: '>' id, newline, sequence, newline.
RECURSIVE FastaText(_)
FastaText(records) ==
    IF records = <<>> THEN <<>>
    ELSE <<GT>> \o Head(records).id \o <<NL>> \o Head(records).sequence \o <<NL>>
         \o FastaText(Tail(records))

RunFiles ==
    {[kind |-> "file", text |-> FastaText(r)] :
        r \in Lists([id : RunIds, sequence : RunSeqs], MaxRunRecords)}
    \cup {[kind |-> "undecodable", text |-> <<>>], [kind |-> "missing", text |-> <<>>]}

InitRun ==
    /\ fasta \in RunFiles
    /\ dest \in {NoDest, FileOf(OldText)}
    /\ old = dest
    /\ io = NoFault
    /\ args \in [op : {"get_sequence_by_id"},
                 sequence_id : RunTargets,
                 start : OptionalOf(0..MaxRunIndex),
                 end : OptionalOf(0..MaxRunIndex),
                 id_output_file : {Some(OutPath)},
                 delimiter : {<<TAB>>},
                 columns : {None, Some(<<>>), Some(<<0>>), Some(<<1>>), Some(<<-1>>)},
                 write_sequence : BOOLEAN]
    /\ pc = "start"
    /\ ret = None
    /\ notices = <<>>

NextRun == CallGetSequenceById

SpecRun == InitRun /\ [][NextRun]_vars

(***************************************************************************)
(* The parser's contract, stated on the lines of the file and not on the   *)
(* loop: the header lines, the text between one header and the next, and   *)
(* the headers that qualify.                                               *)
(***************************************************************************)
StrippedLines(text) ==
    LET ls == SplitLines(text) IN [i \in 1..Len(ls) |-> strip(ls[i])]

HeaderLines(L) == {i \in 1..Len(L) : startswith(L[i], GT)}

\* The line after the last line of the record that header i starts.
RecordEnd(L, i) ==
    IF \E j \in HeaderLines(L) : j > i
    THEN CHOOSE j \in HeaderLines(L) : j > i /\ \A k \in HeaderLines(L) : k > i => j <= k
    ELSE Len(L) + 1

RECURSIVE ConcatLines(_, _, _)
ConcatLines(L, from, to) ==
    IF from >= to THEN <<>> ELSE L[from] \o ConcatLines(L, from + 1, to)

AccumulatedSequence(L, i) == ConcatLines(L, i + 1, RecordEnd(L, i))

Qualifying(L) ==
    {i \in HeaderLines(L) : Tail(L[i]) # <<>> /\ AccumulatedSequence(L, i) # <<>>}

\* The k-th smallest element of a set of line numbers.
Nth(S, k) == CHOOSE i \in S : Cardinality({j \in S : j < i}) = k - 1

\* C1: parse_fasta_file returns, in file order, exactly one (id, sequence)
\* record per header line whose identifier and accumulated sequence are both
\* non-empty; headers with an empty sequence yield nothing; the two lists
\* have the same length.
C1_ParseContract ==
    pc = "parse_fasta_file" =>
        LET L == StrippedLines(fasta.text)
            Q == Qualifying(L)
            r == ret.value
        IN /\ Len(r.ids) = Len(r.sequences)
           /\ Len(r.ids) = Cardinality(Q)
           /\ \A k \in 1..Len(r.ids) :
                 /\ r.ids[k] = Tail(L[Nth(Q, k)])
                 /\ r.sequences[k] = AccumulatedSequence(L, Nth(Q, k))

\* A parsed file with two records of different identifiers.
C1_Witness ==
    /\ pc = "parse_fasta_file"
    /\ ret.value.ids = << <<"A">>, <<"C">> >>
    /\ ret.value.sequences = << <<"A">>, <<"C", "G">> >>

(***************************************************************************)
(* The slicer.                                                             *)
(***************************************************************************)
Clamp(b, n) == Max(0, Min(b, n))

\* C9 as claimed: with both bounds given, start > end raises; otherwise the
\* result is the substring between the bounds, each clamped to 0..len; with
\* a bound absent the sequence comes back unchanged.
C9_AsClaimed ==
    pc = "slice_sequence" =>
        LET n == Len(args.sequence) IN
        IF args.start.some /\ args.end.some
        THEN IF args.start.val > args.end.val
             THEN ret.status = "raised"
             ELSE /\ ret.status = "ok"
                  /\ ret.value = SubSeq(args.sequence, Clamp(args.start.val, n) + 1,
                                        Clamp(args.end.val, n))
        ELSE ret.status = "ok" /\ ret.value = args.sequence

\* Where a bound points to: a negative bound counts from the end of the sequence.
Position(b, n) == IF b >= 0 THEN Min(b, n) ELSE Max(n + b, 0)

\* C9, amended: as claimed for bounds >= 0 (a bound past the end is cut to
\* the length); a negative bound b stands for len + b (0 when that is
\* negative too), and the result is empty when the start position is not
\* before the end position.
C9_SliceContract ==
    pc = "slice_sequence" =>
        LET n == Len(args.sequence) IN
        IF args.start.some /\ args.end.some
        THEN IF args.start.val > args.end.val
             THEN ret.status = "raised" /\ ret.exc = "ValueError"
             ELSE LET lo == Position(args.start.val, n)
                      hi == Position(args.end.val, n)
                  IN /\ ret.status = "ok"
                     /\ Len(ret.value) = Max(hi - lo, 0)
                     /\ \A i \in 1..Len(ret.value) : ret.value[i] = args.sequence[lo + i]
                     /\ (args.start.val >= 0 =>
                            ret.value = SubSeq(args.sequence, Clamp(args.start.val, n) + 1,
                                               Clamp(args.end.val, n)))
        ELSE ret.status = "ok" /\ ret.value = args.sequence

\* A slice taken with a negative start: the last character but one.
C9_Witness ==
    /\ pc = "slice_sequence"
    /\ args.sequence = <<"A", "C", "G">>
    /\ args.start = Some(-2)
    /\ args.end = Some(2)
    /\ ret.value = <<"C">>

(***************************************************************************)
(* The writer.                                                             *)
(***************************************************************************)
Written == pc = "save_sequences_to_file" /\ args.id_output_file.some

Records == 1..Min(Len(args.ids), Len(args.sequences))

\* The id line the specification describes for a columns list: the listed
\* fields, an index past the last field giving an empty field.
ProjectedLine(id) ==
    join(args.delimiter, ProjectionOrEmpty(id, args.columns.val)) \o <<NL>>

\* The columns lists the specification allows: indices that are not negative.
NonNegative(columns) == \A k \in 1..Len(columns.val) : columns.val[k] >= 0

RECURSIVE ConcatAll(_)
ConcatAll(texts) ==
    IF texts = <<>> THEN <<>> ELSE Head(texts) \o ConcatAll(Tail(texts))

\* C5: with a non-empty columns list of non-negative indices and
\* write_sequence true, every record is written as its projected id line (an
\* index past the last field gives an empty field and no error) followed by
\* its sequence line.
C5_ProjectionNeverFails ==
    (Written /\ ColumnsGiven(args.columns) /\ NonNegative(args.columns)
             /\ args.write_sequence) =>
        /\ ret.status = "ok"
        /\ dest.text = ConcatAll([i \in Records |->
                           ProjectedLine(args.ids[i]) \o args.sequences[i] \o <<NL>>])

\* C8: with write_sequence false and a non-empty columns list of
\* non-negative indices, the one line written for each record is its
\* projected id line.
C8_ProjectionWithoutSequence ==
    (Written /\ ColumnsGiven(args.columns) /\ NonNegative(args.columns)
             /\ ~args.write_sequence) =>
        dest.text = ConcatAll([i \in Records |-> ProjectedLine(args.ids[i])])

\* C10: with write_sequence false the file holds exactly as many lines as
\* there are records, for every value of columns: line i is the identifier
\* of record i, so no line is a sequence line.
C10_OneLinePerRecord ==
    (Written /\ ~args.write_sequence) =>
        LET lines == SplitLines(dest.text) IN
        /\ ret.status = "ok"
        /\ dest.exists
        /\ Len(lines) = Len(args.ids)
        /\ \A i \in 1..Len(lines) : lines[i] = args.ids[i] \o <<NL>>

\* Two records with sequences, columns given, written without sequences.
C10_Witness ==
    /\ Written
    /\ ~args.write_sequence
    /\ ColumnsGiven(args.columns)
    /\ Len(args.ids) = 2
    /\ \A i \in 1..2 : args.sequences[i] # <<>> /\ args.ids[i] # <<>>
    /\ Len(SplitLines(dest.text)) = 2

\* What the writer leaves in the file when nothing fails.
CompleteOutput ==
    save_sequences_to_file(old, args.ids, args.sequences, args.id_output_file,
                           args.delimiter, args.columns, args.write_sequence, NoFault)

\* C6: after a call of the writer that failed on the file system (at the
\* open, or for want of room) the destination does not exist, or is the file
\* it was before, or holds the complete output; never a part of it.
C6_NoPartialFile ==
    (Written /\ ret.status = "raised" /\ ret.exc = "OSError") =>
        \/ ~dest.exists
        \/ dest = old
        \/ (CompleteOutput.status = "ok" /\ dest = CompleteOutput.dest)

(***************************************************************************)
(* Writing, then parsing what was written.                                 *)
(***************************************************************************)
ParsedBack == pc = "parse_written"

\* C2 as claimed: the parsed ids and sequences are the ones given to the writer.
C2_AsClaimed ==
    ParsedBack => ret.value.ids = args.ids /\ ret.value.sequences = args.sequences

\* An identifier given with its marker: '>' and at least one more character,
\* no whitespace at either end.
Marked(id) == startswith(id, GT) /\ Len(id) > 1 /\ strip(id) = id

\* A sequence the parser reads back as it is: not empty, no whitespace at
\* either end, not beginning with '>'.
Plain(sequence) ==
    sequence # <<>> /\ strip(sequence) = sequence /\ ~startswith(sequence, GT)

\* C2, amended: the writer writes no '>' marker.  For identifiers and
\* sequences of one line each: when every identifier is
\* given with its marker and every sequence is plain, the parser returns the
\* identifiers without the marker and the sequences, in order; when no
\* identifier and no sequence begins with '>' (whitespace aside), it returns
\* no record at all.
C2_RoundTripWithMarker ==
    ParsedBack =>
        /\ ((\A i \in Records : Marked(args.ids[i]) /\ Plain(args.sequences[i])) =>
               /\ ret.value.ids = [i \in Records |-> Tail(args.ids[i])]
               /\ ret.value.sequences = args.sequences)
        /\ ((\A i \in Records : /\ ~startswith(strip(args.ids[i]), GT)
                                /\ ~startswith(strip(args.sequences[i]), GT)) =>
               ret.value.ids = <<>> /\ ret.value.sequences = <<>>)

\* Two marked records written and read back.
C2_Witness ==
    /\ ParsedBack
    /\ args.ids = << <<GT, "A", SP, "C">>, <<GT, "C">> >>
    /\ args.sequences = << <<"A", "C">>, <<"G">> >>
    /\ ret.value.ids = << <<"A", SP, "C">>, <<"C">> >>

(***************************************************************************)
(* The orchestrator.                                                       *)
(***************************************************************************)
Ran == pc = "get_sequence_by_id"

ParsedIds == parse_fasta_file(fasta.text).ids
ParsedSequences == parse_fasta_file(fasta.text).sequences

Matches == {i \in 1..Len(ParsedIds) : ParsedIds[i] = args.sequence_id.val}

SlicerFails == args.start.some /\ args.end.some /\ args.start.val > args.end.val

\* C3: when a record's identifier equals the one given, and the slicer does
\* not fail, the run slices the first such record, prints the identifier
\* notice and no 'not found' notice, and calls the writer with the single
\* pair (identifier, slice), also when the slice is empty.
C3_FoundIsWritten ==
    (Ran /\ fasta.kind = "file" /\ args.sequence_id.some /\ Matches # {}
         /\ ~SlicerFails) =>
        LET first == CHOOSE i \in Matches : \A j \in Matches : i <= j
            sliced == slice_sequence(ParsedSequences[first], args.start, args.end).value
        IN /\ notices # <<>>
           /\ notices[1] = IdNotice(args.sequence_id.val)
           /\ \A k \in 1..Len(notices) : notices[k].kind # "not found"
           /\ dest = save_sequences_to_file(old, <<args.sequence_id.val>>, <<sliced>>,
                        args.id_output_file, args.delimiter,
                        NormalizeColumns(args.columns), args.write_sequence, io).dest

\* What a run that found nothing must look like: the notice, a normal
\* return, the destination as it was.
ReportedNotFound ==
    /\ ret.status = "ok"
    /\ notices = <<NotFoundNotice(args.sequence_id.val)>>
    /\ dest = old

\* C4: an identifier that is given and equals no parsed id is reported as
\* not found, no error is raised and the destination is not touched: it is
\* the file it was before, or still absent.
C4_NotFoundWritesNothing ==
    (Ran /\ fasta.kind = "file" /\ args.sequence_id.some /\ Matches = {}) =>
        ReportedNotFound

\* C7: once validation has passed, the call returns normally whatever the
\* parser, the slicer or the writer raise.
C7_NothingPropagates ==
    (Ran /\ fasta.kind # "missing") => ret.status = "ok"

====
